---------------------------- MODULE Spec2Model ----------------------------
(***************************************************************************)
(* create2crunch: search for CREATE2 salts that give gas-efficient         *)
(* addresses.  The model covers src/src/lib.rs: the message layout, the    *)
(* zero-byte scan, the CPU fan-out (cpu), the GPU host loop (gpu) and the  *)
(* locked appends to efficient_addresses.txt.                              *)
(*                                                                         *)
(* Bytes are integers 0..255, byte strings are sequences.  Rust's 0-based  *)
(* half-open slices s[a..b] are SubSeq(s, a+1, b).                         *)
(***************************************************************************)
EXTENDS Integers, Sequences, FiniteSets, TLC

VARIABLES
    config,        \* the Config handed to cpu() / gpu()
    engine,        \* "cpu" | "gpu" | "codec": which entry point runs
    file,          \* efficient_addresses.txt: the sequence of write calls made on it
    lock,          \* which open file description holds the exclusive flock
    stdout,        \* println! of the CPU engine: the set of candidates printed
    \* ---- cpu()
    c_pc,          \* "new_round" | "fan_out"
    round,         \* rounds started so far
    header,        \* the 47-byte header of the round
    hash_header,   \* the hash state that absorbed the header
    w_lo, w_hi,    \* the sub-range [w_lo, w_hi) rayon gave each worker
    w_next,        \* the next nonce of each worker
    w_pc,          \* each worker's position in the closure
    w_local,       \* each worker's locals after its last evaluation
    \* ---- gpu()
    g_pc,          \* the control thread's position
    salt,          \* the 4-byte host segment of the outer iteration
    nonce,         \* nonce[0], the device nonce word
    solutions,     \* the host array read back from the device
    dev_solutions, \* the device solutions buffer
    dev_nonce,     \* the device nonce buffer
    dev_message,   \* the device message buffer
    g_slot,        \* index of the solutions word being drained
    g_local,       \* the locals of the drain loop body
    found,
    found_list,
    cumulative_nonce,
    dispatched,    \* history: the host segment and device nonce of every enqueue,
                   \* and how many solutions had been drained before it
    \* ---- another process appending to the same file
    p_pc,
    p_lines,
    \* ---- the codec functions applied to drawn inputs
    z_addr, z_k, z_t, z_i, z_acc, z_gacc, z_verdict,
    \* ---- gpu() and the outcomes of its calls
    h_pc,          \* the call gpu() makes next
    h_env,         \* the OpenCL installation gpu() finds
    h_dev,         \* platform, device and work sizes chosen so far
    h_bufs,        \* the device buffers in the order they were built
    h_touched,     \* the buffer every write, argument binding and read used
    h_loop,        \* salt, nonce[0], pending solution words and the counters
    h_trace,       \* history: segments drawn, dispatches and result lines
    h_faults,      \* history: the calls that failed and what gpu() did then
    \* ---- the rayon workers of cpu() when a call on the results file fails
    k_build,       \* the panic strategy of the build: "unwind" | "abort"
    k_pc,          \* each worker's position in the closure
    k_left,        \* how many nonces of its sub-range each worker has left
    k_log,         \* history: evaluations, result lines and failed calls
    \* ---- mk_kernel_src and Config::new applied to drawn inputs
    m_src,         \* the lines pushed to `src` so far
    a_args,        \* the command line handed to Config::new
    a_result       \* what Config::new returned

vars == << config, engine, file, lock, stdout,
           c_pc, round, header, hash_header, w_lo, w_hi, w_next, w_pc, w_local,
           g_pc, salt, nonce, solutions, dev_solutions, dev_nonce, dev_message,
           g_slot, g_local, found, found_list, cumulative_nonce, dispatched,
           p_pc, p_lines,
           z_addr, z_k, z_t, z_i, z_acc, z_gacc, z_verdict,
           h_pc, h_env, h_dev, h_bufs, h_touched, h_loop, h_trace, h_faults,
           k_build, k_pc, k_left, k_log, m_src, a_args, a_result >>

sinkVars  == << file, lock, stdout >>
cpuVars   == << c_pc, round, header, hash_header, w_lo, w_hi, w_next, w_pc, w_local >>
gpuVars   == << g_pc, salt, nonce, solutions, dev_solutions, dev_nonce, dev_message,
                g_slot, g_local, found, found_list, cumulative_nonce, dispatched >>
peerVars  == << p_pc, p_lines >>
codecVars == << z_addr, z_k, z_t, z_i, z_acc, z_gacc, z_verdict >>
hostVars  == << h_pc, h_env, h_dev, h_bufs, h_touched, h_loop, h_trace, h_faults >>
poolVars  == << k_build, k_pc, k_left, k_log >>
textVars  == << m_src, a_args, a_result >>
envVars   == << config, engine, hostVars, poolVars, textVars >>

\* what a run of the calls of gpu() (SpecHost) leaves alone
engineVars == << config, engine, sinkVars, cpuVars, gpuVars, peerVars, codecVars >>

----------------------------------------------------------------------------
(* Bounds of the model *)

\* the largest 6-byte nonce, 0xffffffffffff in the program: the nonce space
\* is 0..MAX_INCREMENTER, scaled down
MAX_INCREMENTER == 3
\* CPU rounds explored
MaxRounds == 1
\* kernel dispatches explored
MaxDispatch == 3
\* work items per dispatch (global_work_size in the program)
GlobalWorkItems == 2
\* slots of the solutions buffer (64 in the program)
SolutionSlots == 2
\* lines the other process appends
MaxPeerLines == 1

----------------------------------------------------------------------------
(* Byte strings *)

Zeros(n) == [i \in 1..n |-> 0]

\* dst[lo .. lo+len(src)].copy_from_slice(src), lo 0-based
CopyFromSlice(dst, lo, src) ==
    [i \in 1..Len(dst) |->
        IF i > lo /\ i <= lo + Len(src) THEN src[i - lo] ELSE dst[i]]

RECURSIVE LeBytes(_, _)
\* the n low base-256 digits of x, least significant first
LeBytes(x, n) == IF n = 0 THEN << >> ELSE << x % 256 >> \o LeBytes(x \div 256, n - 1)

Reverse(s) == [i \in 1..Len(s) |-> s[Len(s) + 1 - i]]

\* u64::to_le_bytes of a value held as a number (the CPU nonce)
to_le_bytes(x) == LeBytes(x, 8)

\* A u32 or u64 of the GPU engine is held as its base-256 digits, most
\* significant first (4 or 8 of them), so that u32::MAX and the wrap of
\* nonce[0] += 1 are representable.
U32(x) == Reverse(LeBytes(x, 4))

U32_MAX == [i \in 1..4 |-> 255]

RECURSIVE WrappingInc(_)
\* x + 1 modulo 256^Len(x)
WrappingInc(x) ==
    IF x = << >> THEN << >>
    ELSE IF x[Len(x)] < 255 THEN [x EXCEPT ![Len(x)] = @ + 1]
    ELSE WrappingInc(SubSeq(x, 1, Len(x) - 1)) \o << 0 >>

\* u64::to_le_bytes of a value held as digits
word_to_le_bytes(x) == Reverse(x)

\* hex::encode: two hex digits per byte, high digit first (digits as 0..15)
HexEncode(bytes) ==
    [i \in 1..(2 * Len(bytes)) |->
        IF i % 2 = 1 THEN bytes[(i + 1) \div 2] \div 16
                     ELSE bytes[i \div 2] % 16]

\* &s[from..] of a string
StrFrom(s, from) == SubSeq(s, from + 1, Len(s))

CONTROL_CHARACTER == 255

----------------------------------------------------------------------------
(* tiny_keccak::Keccak, as an absorbing state.  The permutation is replaced *)
(* by a small mixing function: the state depends on every absorbed byte and *)
(* on its position, update(a); update(b) absorbs a ++ b, and finalize is a  *)
(* function of the state alone.  Digest bytes are drawn from 0..5 so that   *)
(* zero bytes are frequent enough for candidates to be accepted.            *)

Keccak_v256 == [h |-> 0, n |-> 0]

RECURSIVE Absorb(_, _, _)
\* absorb bytes[i..] in order; h is a natural number, and the test on it
\* makes TLC evaluate it at every step instead of nesting the steps
Absorb(h, bytes, i) ==
    IF h < 0 \/ i > Len(bytes) THEN h
    ELSE Absorb((h * 31 + bytes[i] + 1) % 65521, bytes, i + 1)

\* Keccak::update
KeccakUpdate(st, bytes) == [h |-> Absorb(st.h, bytes, 1), n |-> st.n + Len(bytes)]

\* Keccak::finalize
KeccakFinalize(st) ==
    [i \in 1..32 |-> (((st.h + st.n) * (i + 6) + (i - 1) * (i - 1)) \div 13) % 6]

\* <&Address>::try_from(&res[12..])
AddressOf(res) == SubSeq(res, 13, 32)

----------------------------------------------------------------------------
(* The zero-byte scan (cpu lines 187-197, gpu lines 551-561) *)

ScanStart == [total |-> 0, leading |-> 21]

CpuScanStep_OneBased(acc, i, b) ==
    IF b = 0 THEN [acc EXCEPT !.total = @ + 1]
    ELSE IF acc.leading = 21 THEN [acc EXCEPT !.leading = i + 1]
    ELSE acc

\* one iteration of the CPU loop over address.iter().enumerate()
CpuScanStep(acc, i, b) ==
    IF b = 0 THEN [acc EXCEPT !.total = @ + 1]
    ELSE IF acc.leading = 21 THEN [acc EXCEPT !.leading = i]
    ELSE acc

\* one iteration of the GPU loop over address.iter().enumerate()
GpuScanStep(acc, i, b) ==
    IF b = 0 THEN [acc EXCEPT !.total = @ + 1]
    ELSE IF acc.leading = 21 THEN [acc EXCEPT !.leading = i]
    ELSE acc

RECURSIVE CpuScanFrom(_, _, _)
CpuScanFrom(acc, address, i) ==
    IF i >= Len(address) THEN acc
    ELSE CpuScanFrom(CpuScanStep(acc, i, address[i + 1]), address, i + 1)

RECURSIVE GpuScanFrom(_, _, _)
GpuScanFrom(acc, address, i) ==
    IF i >= Len(address) THEN acc
    ELSE GpuScanFrom(GpuScanStep(acc, i, address[i + 1]), address, i + 1)

CpuZeroMetrics(address) == CpuScanFrom(ScanStart, address, 0)

GpuZeroMetrics(address) == GpuScanFrom(ScanStart, address, 0)

RewardKey_Sum(m) == m.leading + m.total

\* let key = leading * 20 + total
RewardKey(m) == m.leading * 20 + m.total


----------------------------------------------------------------------------
(* Reward (mod reward): a fixed table from the key leading*20+total to a    *)
(* label, built once by Reward::new().  The table has gaps (no label for an *)
(* address without leading zero bytes and fewer than four, or exactly five, *)
(* zero bytes), so that both outcomes of rewards.get(&key) occur in both    *)
(* engines.                                                                 *)

None == "None"

RewardLabel(l, t) == IF l >= 3 \/ t >= 8 THEN "rare" ELSE "common"

\* Reward::new()
RewardNew ==
    [key \in {l * 20 + t : l \in 1..21, t \in 1..20} \cup ({t : t \in 4..19} \ {5}) |->
        RewardLabel(key \div 20, key % 20)]

\* let rewards = Reward::new();
rewards == RewardNew

\* rewards.get(&key)
RewardGet(rw, key) == IF key \in DOMAIN rw THEN rw[key] ELSE None

\* Option::unwrap_or
UnwrapOr(opt, default) == IF opt = None THEN default ELSE opt

----------------------------------------------------------------------------
(* Config *)

FactoryA == [i \in 1..20 |-> (i * 7 + 1) % 256]
CallerA  == [i \in 1..20 |-> (i * 11 + 2) % 256]
InitHashA == [i \in 1..32 |-> (i * 13 + 3) % 256]

MkConfig(dev, lz, tz) ==
    [factory_address |-> FactoryA, calling_address |-> CallerA,
     init_code_hash |-> InitHashA, gpu_device |-> dev,
     leading_zeroes_threshold |-> lz, total_zeroes_threshold |-> tz]

\* gpu_device 255 "indicates that CPU will be used"; 3 and 5 are the defaults
CpuConfigs == {MkConfig(255, 3, 5)}
GpuConfigs == {MkConfig(0, 3, 5)}

----------------------------------------------------------------------------
(* Acceptance *)

TooFewZeroes_AtMostThree(m) == m.total <= 3

\* if total < 3 { return; }
TooFewZeroes(m) == m.total < 3

\* if reward_amount.is_none() { return; }
NoReward(rw, m) == RewardGet(rw, RewardKey(m)) = None

CpuAccepted_AtThreshold(cfg, m, rw) ==
    ~TooFewZeroes(m) /\ ~NoReward(rw, m) /\ m.total = cfg.total_zeroes_threshold

\* the CPU closure reaches its println! and its write
CpuAccepted(cfg, m, rw) == ~TooFewZeroes(m) /\ ~NoReward(rw, m)

ZeroCount(address) == Cardinality({i \in 1..Len(address) : address[i] = 0})

\* the kernel's threshold test with LEADING_ZEROES = lz and TOTAL_ZEROES = tz:
\* "three leading zeroes or five total zeroes" (lib.rs 241-244, 474)
KernelAccept(address, lz, tz) ==
    \/ (lz <= Len(address) /\ \A i \in 1..lz : address[i] = 0)
    \/ ZeroCount(address) >= tz

----------------------------------------------------------------------------
(* The results file.  output_file() opens it once per process in append     *)
(* mode; lock_exclusive / unlock are flock(LOCK_EX) / flock(LOCK_UN) on     *)
(* that open file description, so the lock is held by the description, not  *)
(* by a thread: a second lock_exclusive through the same File returns at    *)
(* once, and unlock through it releases the lock whoever took it.           *)
(* writeln!(&file, "{output}") formats into an unbuffered File: the text    *)
(* and the newline reach the file as two appends.                           *)

Self == "self"
Peer == "peer"

\* file.lock_exclusive() returns for the holder of description d
CanLock(d) == lock = None \/ lock = d

\* FileExt::unlock(&file) through description d
Unlocked(d) == IF lock = d THEN None ELSE lock

TextChunk(by, output) == [kind |-> "text", by |-> by, text |-> output]
NewlineChunk(by) == [kind |-> "nl", by |-> by, text |-> << >>]

----------------------------------------------------------------------------
(* cpu() *)

Workers == {1, 2}

\* FixedBytes::<6>::random()
RunSegments == { <<1, 2, 3, 4, 5, 6>>, <<2, 0, 0, 0, 0, 3>> }

\* header: 0xff ++ factory ++ caller ++ salt_random_segment (47 bytes)
BuildHeader(cfg, segment) ==
    LET h0 == [Zeros(47) EXCEPT ![1] = CONTROL_CHARACTER]
        h1 == CopyFromSlice(h0, 1, cfg.factory_address)
        h2 == CopyFromSlice(h1, 21, cfg.calling_address)
    IN  CopyFromSlice(h2, 41, segment)

SaltSegment_BigEndian(n) ==
    LET le == to_le_bytes(n) IN [i \in 1..6 |-> le[7 - i]]

\* let salt = salt.to_le_bytes(); let salt_incremented_segment = &salt[..6];
SaltSegment(n) == SubSeq(to_le_bytes(n), 1, 6)

\* the closure body up to the zero-byte scan, for nonce n
CpuCandidate(hh, cfg, n) ==
    LET segment == SaltSegment(n)
        hash0   == hh                                     \* hash_header.clone()
        hash1   == KeccakUpdate(hash0, segment)
        hash2   == KeccakUpdate(hash1, cfg.init_code_hash)
        res     == KeccakFinalize(hash2)
        address == AddressOf(res)
    IN  [nonce |-> n, segment |-> segment, address |-> address,
         m |-> CpuZeroMetrics(address)]

CpuFullSalt_From40(hdr, segment) ==
    StrFrom(HexEncode(hdr), 40) \o HexEncode(segment)

\* format!("0x{}{}", &header_hex_string[42..], &body_hex_string), digits only
CpuFullSalt(hdr, segment) ==
    StrFrom(HexEncode(hdr), 42) \o HexEncode(segment)

\* format!("{full_salt} => {address} => {}", reward_amount.unwrap_or("0"))
CpuOutput(hdr, cand, rw) ==
    [salt |-> CpuFullSalt(hdr, cand.segment),
     address |-> cand.address,
     reward |-> UnwrapOr(RewardGet(rw, RewardKey(cand.m)), "0")]

\* (0..MAX_INCREMENTER).into_par_iter(): a Rust range, its end excluded
NonceRange == [start |-> 0, end |-> MAX_INCREMENTER]

\* who wrote a chunk of the file (not part of the file's bytes)
Tag(eng, r, n, segment) == [eng |-> eng, round |-> r, nonce |-> n, segment |-> segment]

CpuTag(n) == Tag("cpu", round, n, SubSeq(header, 42, 47))

SplitAt_Overlap(range, mid) ==
    << [start |-> range.start, end |-> mid], [start |-> range.start, end |-> range.end] >>

\* into_par_iter(): the range is split in two at mid, one part per worker
SplitAt(range, mid) ==
    << [start |-> range.start, end |-> mid], [start |-> mid, end |-> range.end] >>

\* the loop head: a fresh header, absorbed once; rayon splits the range
\* between the workers at some point mid
NewRound ==
    /\ engine = "cpu"
    /\ c_pc = "new_round"
    /\ round < MaxRounds
    /\ \E segment \in RunSegments, mid \in NonceRange.start..NonceRange.end :
          /\ header' = BuildHeader(config, segment)
          /\ hash_header' = KeccakUpdate(Keccak_v256, header')
          /\ w_lo' = [w \in Workers |-> SplitAt(NonceRange, mid)[w].start]
          /\ w_hi' = [w \in Workers |-> SplitAt(NonceRange, mid)[w].end]
          /\ w_next' = w_lo'
          /\ w_pc' = [w \in Workers |-> IF w_lo'[w] < w_hi'[w] THEN "eval" ELSE "done"]
    /\ w_local' = [w \in Workers |-> << >>]
    /\ round' = round + 1
    /\ c_pc' = "fan_out"
    /\ UNCHANGED << envVars, sinkVars, gpuVars, peerVars, codecVars >>

\* the closure returns: the worker takes its next nonce
Advance(w) ==
    /\ w_next' = [w_next EXCEPT ![w] = @ + 1]
    /\ w_pc' = [w_pc EXCEPT ![w] = IF w_next[w] + 1 < w_hi[w] THEN "eval" ELSE "done"]

\* total < 3: return
RejectFewZeroes(w, cand) ==
    /\ TooFewZeroes(cand.m)
    /\ w_local' = [w_local EXCEPT ![w] = << [cand |-> cand, output |-> << >>] >>]
    /\ Advance(w)
    /\ UNCHANGED stdout

\* reward_amount.is_none(): return
RejectNoReward(w, cand) ==
    /\ ~TooFewZeroes(cand.m)
    /\ NoReward(rewards, cand.m)
    /\ w_local' = [w_local EXCEPT ![w] = << [cand |-> cand, output |-> << >>] >>]
    /\ Advance(w)
    /\ UNCHANGED stdout

\* an efficient address: build the output and println! it
Accept(w, cand) ==
    /\ ~TooFewZeroes(cand.m)
    /\ ~NoReward(rewards, cand.m)
    /\ w_local' = [w_local EXCEPT ![w] =
                      << [cand |-> cand, output |-> << CpuOutput(header, cand, rewards) >>] >>]
    /\ stdout' = stdout \cup { CpuTag(w_next[w]) }
    /\ w_pc' = [w_pc EXCEPT ![w] = "lock"]
    /\ UNCHANGED w_next

\* the closure body on one nonce, up to the file lock: hash the candidate,
\* scan its address, and return early or print
Evaluate(w) ==
    /\ engine = "cpu" /\ c_pc = "fan_out" /\ w_pc[w] = "eval"
    /\ LET cand == CpuCandidate(hash_header, config, w_next[w]) IN
          \/ RejectFewZeroes(w, cand)
          \/ RejectNoReward(w, cand)
          \/ Accept(w, cand)
    /\ UNCHANGED << envVars, file, lock, c_pc, round, header, hash_header, w_lo, w_hi,
                    gpuVars, peerVars, codecVars >>

\* file.lock_exclusive().expect(..)
CpuLock(w) ==
    /\ engine = "cpu" /\ w_pc[w] = "lock"
    /\ CanLock(Self)
    /\ lock' = Self
    /\ w_pc' = [w_pc EXCEPT ![w] = "write"]
    /\ UNCHANGED << envVars, file, stdout, c_pc, round, header, hash_header, w_lo, w_hi,
                    w_next, w_local, gpuVars, peerVars, codecVars >>

\* writeln!(&file, "{output}"): the text
CpuWriteOutput(w) ==
    /\ engine = "cpu" /\ w_pc[w] = "write"
    /\ file' = Append(file, TextChunk(CpuTag(w_next[w]), w_local[w][1].output[1]))
    /\ w_pc' = [w_pc EXCEPT ![w] = "newline"]
    /\ UNCHANGED << envVars, lock, stdout, c_pc, round, header, hash_header, w_lo, w_hi,
                    w_next, w_local, gpuVars, peerVars, codecVars >>

\* writeln!(&file, "{output}"): the newline
CpuWriteNewline(w) ==
    /\ engine = "cpu" /\ w_pc[w] = "newline"
    /\ file' = Append(file, NewlineChunk(CpuTag(w_next[w])))
    /\ w_pc' = [w_pc EXCEPT ![w] = "unlock"]
    /\ UNCHANGED << envVars, lock, stdout, c_pc, round, header, hash_header, w_lo, w_hi,
                    w_next, w_local, gpuVars, peerVars, codecVars >>

\* FileExt::unlock(&file).expect(..), and the closure ends
CpuUnlock(w) ==
    /\ engine = "cpu" /\ w_pc[w] = "unlock"
    /\ lock' = Unlocked(Self)
    /\ Advance(w)
    /\ UNCHANGED << envVars, file, stdout, c_pc, round, header, hash_header, w_lo, w_hi,
                    w_local, gpuVars, peerVars, codecVars >>

\* for_each returns when every worker has exhausted its sub-range
EndRound ==
    /\ engine = "cpu" /\ c_pc = "fan_out"
    /\ \A w \in Workers : w_pc[w] = "done"
    /\ c_pc' = "new_round"
    /\ UNCHANGED << envVars, sinkVars, round, header, hash_header, w_lo, w_hi, w_next,
                    w_pc, w_local, gpuVars, peerVars, codecVars >>

CpuNext ==
    \/ NewRound
    \/ EndRound
    \/ \E w \in Workers :
          \/ Evaluate(w)
          \/ CpuLock(w) \/ CpuWriteOutput(w) \/ CpuWriteNewline(w) \/ CpuUnlock(w)

----------------------------------------------------------------------------
(* Another process running this program on the same results file: its own   *)
(* open file description, the same lock / writeln! / unlock sequence.       *)

PeerOutput == [salt |-> << >>, address |-> << >>, reward |-> "peer"]

PeerLock ==
    /\ p_pc = "idle" /\ p_lines < MaxPeerLines
    /\ CanLock(Peer)
    /\ lock' = Peer
    /\ p_pc' = "write"
    /\ UNCHANGED << envVars, file, stdout, cpuVars, gpuVars, p_lines, codecVars >>

PeerWriteOutput ==
    /\ p_pc = "write"
    /\ file' = Append(file, TextChunk(Tag("peer", p_lines, 0, << >>), PeerOutput))
    /\ p_pc' = "newline"
    /\ UNCHANGED << envVars, lock, stdout, cpuVars, gpuVars, p_lines, codecVars >>

PeerWriteNewline ==
    /\ p_pc = "newline"
    /\ file' = Append(file, NewlineChunk(Tag("peer", p_lines, 0, << >>)))
    /\ p_pc' = "unlock"
    /\ UNCHANGED << envVars, lock, stdout, cpuVars, gpuVars, p_lines, codecVars >>

PeerUnlock ==
    /\ p_pc = "unlock"
    /\ lock' = Unlocked(Peer)
    /\ p_pc' = "idle"
    /\ p_lines' = p_lines + 1
    /\ UNCHANGED << envVars, file, stdout, cpuVars, gpuVars, codecVars >>

PeerNext == PeerLock \/ PeerWriteOutput \/ PeerWriteNewline \/ PeerUnlock

----------------------------------------------------------------------------
(* gpu(): the host loop.  The kernel (kernels/keccak256.cl) is taken by its *)
(* contract: every work item gid hashes the message whose 8-byte nonce is   *)
(* gid (low word) and the device nonce (high word), and stores that 8-byte  *)
(* nonce in the solutions buffer when the address passes the thresholds.    *)

\* FixedBytes::<4>::random()
HostSegments == { <<7, 7, 7, 7>>, <<0, 0, 0, 1>> }

\* rng.gen() for nonce: [u32; 1]
NonceStarts == { U32(0), U32(255), U32_MAX }

\* the 85-byte message of a solution (lines 530-536)
SolutionMessage(cfg, segment, solution) ==
    LET m0 == [Zeros(85) EXCEPT ![1] = CONTROL_CHARACTER]
        m1 == CopyFromSlice(m0, 1, cfg.factory_address)
        m2 == CopyFromSlice(m1, 21, cfg.calling_address)
        m3 == CopyFromSlice(m2, 41, segment)
        m4 == CopyFromSlice(m3, 45, word_to_le_bytes(solution))
    IN  CopyFromSlice(m4, 53, cfg.init_code_hash)

\* hash the message and take the address (lines 538-549)
SolutionAddress(cfg, segment, solution) ==
    AddressOf(KeccakFinalize(KeccakUpdate(Keccak_v256, SolutionMessage(cfg, segment, solution))))

\* the 8-byte nonce of work item gid under device nonce word d: d is the
\* high word, gid the low word
KernelWord(gid, d) == d \o U32(gid)

\* the work items whose candidate passes the thresholds in one dispatch
KernelFinds(cfg, message, d) ==
    { gid \in 0..(GlobalWorkItems - 1) :
        KernelAccept(SolutionAddress(cfg, message, KernelWord(gid, d)),
                     cfg.leading_zeroes_threshold, cfg.total_zeroes_threshold) }

NoSolution == Zeros(8)

RECURSIVE StoreWords(_, _, _)
\* found nonces go to the free slots, lowest work item first
StoreWords(buf, gids, d) ==
    IF gids = {} \/ \A i \in 1..Len(buf) : buf[i] # NoSolution THEN buf
    ELSE LET gid  == CHOOSE x \in gids : \A y \in gids : x <= y
             slot == CHOOSE i \in 1..Len(buf) :
                        buf[i] = NoSolution /\ \A j \in 1..(i - 1) : buf[j] # NoSolution
         IN  StoreWords([buf EXCEPT ![slot] = KernelWord(gid, d)], gids \ {gid}, d)

KernelRun(cfg, message, d, buf) == StoreWords(buf, KernelFinds(cfg, message, d), d)

\* "0x{}{}{}" of calling_address, salt, solution (lines 565-569), digits only
GpuFullSalt(cfg, segment, solution) ==
    HexEncode(cfg.calling_address) \o HexEncode(segment) \o HexEncode(word_to_le_bytes(solution))

\* the body of the drain loop for one non-zero solution (lines 528-574)
GpuResult(cfg, rw, segment, solution) ==
    LET address == SolutionAddress(cfg, segment, solution)
        m       == GpuZeroMetrics(address)
        output  == [salt |-> GpuFullSalt(cfg, segment, solution),
                    address |-> address,
                    reward |-> UnwrapOr(RewardGet(rw, RewardKey(m)), "0")]
    IN  [output |-> output, show |-> [output |-> output, leading |-> m.leading, total |-> m.total]]

GpuTag == Tag("gpu", cumulative_nonce, solutions[g_slot + 1], salt)

CumulativeAfterRoll_Reset(c) == 0

\* the head of the outer loop leaves cumulative_nonce alone
\* ("does not reset after a match")
CumulativeAfterRoll(c) == c

Fill_Keep(s, v) == s

\* solutions.fill(0)
Fill(s, v) == [i \in DOMAIN s |-> v]

\* the head of the outer loop: new host segment, new random nonce, cleared solutions
RollSegment ==
    /\ engine = "gpu" /\ g_pc = "roll"
    /\ Len(dispatched) < MaxDispatch
    /\ \E segment \in HostSegments, start \in NonceStarts :
          /\ salt' = segment
          /\ dev_message' = segment
          /\ nonce' = start
          /\ dev_nonce' = start
    /\ solutions' = Fill(solutions, NoSolution)
    /\ dev_solutions' = solutions'
    /\ cumulative_nonce' = CumulativeAfterRoll(cumulative_nonce)
    /\ g_pc' = "enqueue"
    /\ UNCHANGED << envVars, sinkVars, cpuVars, g_slot, g_local, found, found_list,
                    dispatched, peerVars, codecVars >>

\* cumulative_nonce += 1, the only assignment to it in the loops
CumulativeAfterEnqueue(c) == c + 1

\* build the kernel, bind the three buffers, enqueue it; the device runs it
Enqueue ==
    /\ engine = "gpu" /\ g_pc = "enqueue"
    /\ Len(dispatched) < MaxDispatch
    /\ dev_solutions' = KernelRun(config, dev_message, dev_nonce, dev_solutions)
    /\ dispatched' = Append(dispatched, [segment |-> dev_message, nonce |-> dev_nonce,
                                         outer |-> Len(found_list)])
    /\ cumulative_nonce' = CumulativeAfterEnqueue(cumulative_nonce)
    /\ g_pc' = "read"
    /\ UNCHANGED << envVars, sinkVars, cpuVars, salt, nonce, solutions, dev_nonce,
                    dev_message, g_slot, g_local, found, found_list, peerVars, codecVars >>

\* solutions_buffer.read(&mut solutions): at least one solution, leave the loop
ReadFound ==
    /\ engine = "gpu" /\ g_pc = "read"
    /\ \E i \in 1..Len(dev_solutions) : dev_solutions[i] # NoSolution
    /\ solutions' = dev_solutions
    /\ g_slot' = 0
    /\ g_pc' = "drain"
    /\ UNCHANGED << envVars, sinkVars, cpuVars, salt, nonce, dev_solutions, dev_nonce,
                    dev_message, g_local, found, found_list, cumulative_nonce, dispatched,
                    peerVars, codecVars >>

\* no solution: nonce[0] += 1, written to the nonce buffer
ReadNone ==
    /\ engine = "gpu" /\ g_pc = "read"
    /\ \A i \in 1..Len(dev_solutions) : dev_solutions[i] = NoSolution
    /\ nonce # U32_MAX
    /\ solutions' = dev_solutions
    /\ nonce' = WrappingInc(nonce)
    /\ dev_nonce' = nonce'
    /\ g_pc' = "enqueue"
    /\ UNCHANGED << envVars, sinkVars, cpuVars, salt, dev_solutions, dev_message, g_slot,
                    g_local, found, found_list, cumulative_nonce, dispatched,
                    peerVars, codecVars >>

\* no solution and nonce[0] = u32::MAX: the addition wraps (overflow checks off)
ReadNoneWrap ==
    /\ engine = "gpu" /\ g_pc = "read"
    /\ \A i \in 1..Len(dev_solutions) : dev_solutions[i] = NoSolution
    /\ nonce = U32_MAX
    /\ solutions' = dev_solutions
    /\ nonce' = WrappingInc(nonce)
    /\ dev_nonce' = nonce'
    /\ g_pc' = "enqueue"
    /\ UNCHANGED << envVars, sinkVars, cpuVars, salt, dev_solutions, dev_message, g_slot,
                    g_local, found, found_list, cumulative_nonce, dispatched,
                    peerVars, codecVars >>

\* no solution and nonce[0] = u32::MAX: the addition panics (overflow checks on)
ReadNonePanic ==
    /\ engine = "gpu" /\ g_pc = "read"
    /\ \A i \in 1..Len(dev_solutions) : dev_solutions[i] = NoSolution
    /\ nonce = U32_MAX
    /\ solutions' = dev_solutions
    /\ g_pc' = "panicked"
    /\ UNCHANGED << envVars, sinkVars, cpuVars, salt, nonce, dev_solutions, dev_nonce,
                    dev_message, g_slot, g_local, found, found_list, cumulative_nonce,
                    dispatched, peerVars, codecVars >>

\* for &solution in &solutions: solution == 0, continue
DrainSkip ==
    /\ engine = "gpu" /\ g_pc = "drain"
    /\ g_slot < Len(solutions)
    /\ solutions[g_slot + 1] = NoSolution
    /\ g_slot' = g_slot + 1
    /\ UNCHANGED << envVars, sinkVars, cpuVars, g_pc, salt, nonce, solutions, dev_solutions,
                    dev_nonce, dev_message, g_local, found, found_list, cumulative_nonce,
                    dispatched, peerVars, codecVars >>

\* a non-zero solution: rebuild the message, hash it, classify, found_list.push
DrainSolution ==
    /\ engine = "gpu" /\ g_pc = "drain"
    /\ g_slot < Len(solutions)
    /\ solutions[g_slot + 1] # NoSolution
    /\ LET r == GpuResult(config, rewards, salt, solutions[g_slot + 1]) IN
          /\ g_local' = << r >>
          /\ found_list' = Append(found_list, r.show)
    /\ g_pc' = "lock"
    /\ UNCHANGED << envVars, sinkVars, cpuVars, salt, nonce, solutions, dev_solutions,
                    dev_nonce, dev_message, g_slot, found, cumulative_nonce, dispatched,
                    peerVars, codecVars >>

GpuLock ==
    /\ engine = "gpu" /\ g_pc = "lock"
    /\ CanLock(Self)
    /\ lock' = Self
    /\ g_pc' = "write"
    /\ UNCHANGED << envVars, file, stdout, cpuVars, salt, nonce, solutions, dev_solutions,
                    dev_nonce, dev_message, g_slot, g_local, found, found_list,
                    cumulative_nonce, dispatched, peerVars, codecVars >>

GpuWriteOutput ==
    /\ engine = "gpu" /\ g_pc = "write"
    /\ file' = Append(file, TextChunk(GpuTag, g_local[1].output))
    /\ g_pc' = "newline"
    /\ UNCHANGED << envVars, lock, stdout, cpuVars, salt, nonce, solutions, dev_solutions,
                    dev_nonce, dev_message, g_slot, g_local, found, found_list,
                    cumulative_nonce, dispatched, peerVars, codecVars >>

GpuWriteNewline ==
    /\ engine = "gpu" /\ g_pc = "newline"
    /\ file' = Append(file, NewlineChunk(GpuTag))
    /\ g_pc' = "unlock"
    /\ UNCHANGED << envVars, lock, stdout, cpuVars, salt, nonce, solutions, dev_solutions,
                    dev_nonce, dev_message, g_slot, g_local, found, found_list,
                    cumulative_nonce, dispatched, peerVars, codecVars >>

FoundAfterUnlock_Stuck(f) == f

\* found += 1, once per solution written
FoundAfterUnlock(f) == f + 1

\* FileExt::unlock(&file); found += 1; next solution
GpuUnlock ==
    /\ engine = "gpu" /\ g_pc = "unlock"
    /\ lock' = Unlocked(Self)
    /\ found' = FoundAfterUnlock(found)
    /\ g_slot' = g_slot + 1
    /\ g_pc' = "drain"
    /\ UNCHANGED << envVars, file, stdout, cpuVars, salt, nonce, solutions, dev_solutions,
                    dev_nonce, dev_message, g_local, found_list, cumulative_nonce,
                    dispatched, peerVars, codecVars >>

\* the for loop is over: back to the head of the outer loop
DrainEnd ==
    /\ engine = "gpu" /\ g_pc = "drain"
    /\ g_slot = Len(solutions)
    /\ g_pc' = "roll"
    /\ UNCHANGED << envVars, sinkVars, cpuVars, salt, nonce, solutions, dev_solutions,
                    dev_nonce, dev_message, g_slot, g_local, found, found_list,
                    cumulative_nonce, dispatched, peerVars, codecVars >>

GpuNext ==
    \/ RollSegment \/ Enqueue
    \/ ReadFound \/ ReadNone \/ ReadNoneWrap \/ ReadNonePanic
    \/ DrainSkip \/ DrainSolution \/ DrainEnd
    \/ GpuLock \/ GpuWriteOutput \/ GpuWriteNewline \/ GpuUnlock

----------------------------------------------------------------------------
(* One run of the program: the configuration selects the engine; another    *)
(* process may append to the same file.                                     *)

\* the step-by-step run of gpu() below is not part of this specification
HostOff ==
    /\ h_pc = "off" /\ h_env = << >> /\ h_dev = << >> /\ h_bufs = << >>
    /\ h_touched = {} /\ h_loop = << >> /\ h_trace = << >> /\ h_faults = << >>

\* nor are the runs with a failing results file, mk_kernel_src and Config::new
PoolOff ==
    /\ k_build = "off" /\ k_pc = << >> /\ k_left = << >> /\ k_log = << >>
    /\ m_src = << >> /\ a_args = << >> /\ a_result = None

Init ==
    /\ \/ engine = "cpu" /\ config \in CpuConfigs
       \/ engine = "gpu" /\ config \in GpuConfigs
    /\ file = << >> /\ lock = None /\ stdout = {}
    /\ c_pc = (IF engine = "cpu" THEN "new_round" ELSE "off")
    /\ round = 0 /\ header = Zeros(47) /\ hash_header = Keccak_v256
    /\ w_lo = [w \in Workers |-> 0] /\ w_hi = [w \in Workers |-> 0]
    /\ w_next = [w \in Workers |-> 0]
    /\ w_pc = [w \in Workers |-> "done"]
    /\ w_local = [w \in Workers |-> << >>]
    /\ g_pc = (IF engine = "gpu" THEN "roll" ELSE "off")
    /\ salt = Zeros(4) /\ nonce = U32(0)
    /\ solutions = [i \in 1..SolutionSlots |-> NoSolution]
    /\ dev_solutions = [i \in 1..SolutionSlots |-> NoSolution]
    /\ dev_nonce = U32(0) /\ dev_message = Zeros(4)
    /\ g_slot = 0 /\ g_local = << >> /\ found = 0 /\ found_list = << >>
    /\ cumulative_nonce = 0 /\ dispatched = << >>
    /\ p_pc = "idle" /\ p_lines = 0
    /\ z_addr = << >> /\ z_k = 0 /\ z_t = 0 /\ z_i = 0
    /\ z_acc = ScanStart /\ z_gacc = ScanStart /\ z_verdict = << >>
    /\ HostOff /\ PoolOff

Next == CpuNext \/ GpuNext \/ PeerNext

Spec == Init /\ [][Next]_vars

----------------------------------------------------------------------------
(* The statements checked on the engines (under Spec), in the terms of the  *)
(* specification: the 85-byte message and the line structure of the file.   *)

\* 0xFF || factory || caller || run-segment || LE6(n) || init_code_hash
Message85(cfg, segment, n) ==
    << 255 >> \o cfg.factory_address \o cfg.calling_address \o segment
              \o LeBytes(n, 6) \o cfg.init_code_hash

\* 0xFF || factory || salt || init_code_hash, the CREATE2 preimage
Create2Message(cfg, salt32) ==
    << 255 >> \o cfg.factory_address \o salt32 \o cfg.init_code_hash

Keccak256(msg) == KeccakFinalize(KeccakUpdate(Keccak_v256, msg))

Low20(digest) == [i \in 1..20 |-> digest[12 + i]]

HexDecode(digits) ==
    [i \in 1..(Len(digits) \div 2) |-> digits[2 * i - 1] * 16 + digits[2 * i]]

\* count of leading zero bytes, 21 for the all-zero address
FirstNonZero(address) ==
    IF \A i \in 1..Len(address) : address[i] = 0 THEN 21
    ELSE (CHOOSE i \in 1..Len(address) :
              address[i] # 0 /\ \A j \in 1..(i - 1) : address[j] = 0) - 1

\* the address of nonce n in the current CPU round
RoundAddress(n) == Low20(Keccak256(Message85(config, SubSeq(header, 42, 47), n)))

\* total >= 3 and leading*20+total present in the reward table
ShouldRecord(n) ==
    LET address == RoundAddress(n) IN
        /\ ZeroCount(address) >= 3
        /\ FirstNonZero(address) * 20 + ZeroCount(address) \in DOMAIN rewards

\* the nonces of the current round a worker is done with
Finished(w) == { n \in 0..MAX_INCREMENTER : w_lo[w] <= n /\ n < w_next[w] }

Evaluated == UNION { Finished(w) : w \in Workers }

\* the append calls that carried the text of result `tag`
TextsIn(f, tag) == { i \in 1..Len(f) : f[i].kind = "text" /\ f[i].by = tag }

TextsOf(tag) == TextsIn(file, tag)

\* file[i] is a whole line: the text of one result, alone between newlines
IsLine(i) ==
    /\ file[i].kind = "text"
    /\ i = 1 \/ file[i - 1].kind = "nl"
    /\ i < Len(file) /\ file[i + 1].kind = "nl"

InSection(pc) == pc \in {"write", "newline", "unlock"}

\* the writers between their lock_exclusive and their unlock
Writers ==
    { << "cpu", w >> : w \in { v \in Workers : engine = "cpu" /\ InSection(w_pc[v]) } }
    \cup (IF engine = "gpu" /\ InSection(g_pc) THEN { << "gpu", 0 >> } ELSE {})
    \cup (IF InSection(p_pc) THEN { << "peer", 0 >> } ELSE {})

\* C1 as stated: whatever the interleaving of the writers, every line of the
\* file is one complete result followed by its newline.
C1_AsStated ==
    \A i \in 1..Len(file) :
        /\ (i % 2 = 1) => file[i].kind = "text"
        /\ (i % 2 = 0) => (file[i].kind = "nl" /\ file[i].by = file[i - 1].by)

\* C2 as stated: at most one writer (CPU worker, GPU control thread, other
\* process) is between its lock_exclusive and its unlock.
C2_AsStated == Cardinality(Writers) <= 1

\* C3 as stated: every accepted nonce a worker is done with has exactly one
\* result line in the file.
C3_AsStated ==
    engine = "cpu" =>
        \A n \in Evaluated :
            ShouldRecord(n) =>
                Cardinality({ i \in TextsOf(CpuTag(n)) : IsLine(i) }) = 1

\* C4 as stated: when a round is over, every nonce of the space
\* 0..MAX_INCREMENTER has been evaluated, the largest one included.
C4_AsStated ==
    (engine = "cpu" /\ round > 0 /\ \A w \in Workers : w_pc[w] = "done") =>
        Evaluated = 0..MAX_INCREMENTER

\* C5: the address a worker computes for nonce n from the cloned header
\* state is the low 20 bytes of keccak256 of the single 85-byte message
\* 0xFF || factory || caller || run-segment || LE6(n) || init_code_hash, and
\* the shared header state stays the state that absorbed the 47-byte header.
C5_CloneEqualsOneShot ==
    [][engine = "cpu" =>
          /\ (c_pc = "new_round" /\ c_pc' = "fan_out") =>
                hash_header' = KeccakUpdate(Keccak_v256,
                                   SubSeq(Message85(config, SubSeq(header', 42, 47), 0), 1, 47))
          /\ c_pc = "fan_out" =>
                /\ hash_header' = hash_header
                /\ \A w \in Workers :
                      (w_local'[w] # w_local[w]) =>
                         LET cand == w_local'[w][1].cand IN
                            /\ cand.nonce = w_next[w]
                            /\ Len(Message85(config, SubSeq(header, 42, 47), cand.nonce)) = 85
                            /\ cand.address = RoundAddress(cand.nonce)]_vars

C5_Witness ==
    /\ engine = "cpu"
    /\ \A w \in Workers : w_local[w] # << >>
    /\ w_local[1][1].cand.nonce # w_local[2][1].cand.nonce
    /\ w_local[2][1].cand.nonce = 2
    /\ w_local[2][1].cand.address = RoundAddress(2)

\* C7: when a worker is done with a nonce, its candidate was printed and
\* written (one text, then its newline) if and only if its address has at
\* least 3 zero bytes and its key leading*20+total is in the reward table;
\* any other candidate left nothing on stdout and nothing in the file, and
\* no step of the engine prints or writes for any other candidate.
C7_RecordsIffAccepted ==
    [][(engine = "cpu" /\ c_pc = "fan_out") =>
          /\ \A w \in Workers :
                (w_next'[w] = w_next[w] + 1) =>
                    LET tag == CpuTag(w_next[w])
                        rec == ShouldRecord(w_next[w])
                    IN  /\ rec <=> tag \in stdout'
                        /\ Cardinality(TextsIn(file', tag)) = (IF rec THEN 1 ELSE 0)
                        /\ rec <=> \E i \in 1..Len(file') : file'[i] = NewlineChunk(tag)
          /\ \A tag \in stdout' \ stdout :
                \E w \in Workers : tag = CpuTag(w_next[w]) /\ ShouldRecord(w_next[w])
          /\ (Len(file') > Len(file) /\ file'[Len(file')].by.eng = "cpu") =>
                \E w \in Workers :
                    /\ file'[Len(file')].by = CpuTag(w_next[w])
                    /\ ShouldRecord(w_next[w])]_vars

C7_Witness ==
    /\ engine = "cpu"
    /\ \E n \in Evaluated : ShouldRecord(n) /\ TextsOf(CpuTag(n)) # {}
    /\ \E n \in Evaluated : ZeroCount(RoundAddress(n)) < 3 /\ TextsOf(CpuTag(n)) = {}
    /\ \E n \in Evaluated :
          /\ ZeroCount(RoundAddress(n)) >= 3
          /\ ~ShouldRecord(n)
          /\ CpuTag(n) \notin stdout

\* the salt of a result text is 32 bytes, calling_address || segment ||
\* nonce, and its address is the low 20 bytes of keccak256 of the 85-byte
\* message that carries that salt at offsets 21..53
SaltMatchesAddress(chunk) ==
    LET salt32 == HexDecode(chunk.text.salt)
        by     == chunk.by
    IN  /\ Len(chunk.text.salt) = 64
        /\ Len(salt32) = 32
        /\ SubSeq(salt32, 1, 20) = config.calling_address
        /\ by.eng = "cpu" =>
              /\ SubSeq(salt32, 21, 26) = by.segment
              /\ SubSeq(salt32, 27, 32) = LeBytes(by.nonce, 6)
        /\ by.eng = "gpu" =>
              /\ SubSeq(salt32, 21, 24) = by.segment
              /\ SubSeq(salt32, 25, 32) = Reverse(by.nonce)
        /\ Len(Create2Message(config, salt32)) = 85
        /\ SubSeq(Create2Message(config, salt32), 22, 53) = salt32
        /\ chunk.text.address = Low20(Keccak256(Create2Message(config, salt32)))

\* C9: the file only grows by appends, and the salt printed on every result
\* text either engine appends is 32 bytes, calling_address || random segment
\* || nonce (CPU 20+6+6, GPU 20+4+8), and is the bytes at offsets 21..53 of
\* the 85-byte message whose keccak256 yields the address printed with it.
C9_SaltMatchesAddress ==
    [][file' # file =>
          /\ Len(file') = Len(file) + 1
          /\ SubSeq(file', 1, Len(file)) = file
          /\ (file'[Len(file')].kind = "text" /\ file'[Len(file')].by.eng \in {"cpu", "gpu"}) =>
                SaltMatchesAddress(file'[Len(file')])]_vars

C9_Witness ==
    /\ engine = "gpu"
    /\ \E i \in 1..Len(file) :
          /\ file[i].kind = "text"
          /\ file[i].by.eng = "gpu"
          /\ file[i].by.nonce # NoSolution
          /\ SubSeq(HexDecode(file[i].text.salt), 21, 24) = salt

\* C10 as stated: no (host segment, device nonce) pair is dispatched twice.
C10_AsStated ==
    \A i, j \in 1..Len(dispatched) :
        (dispatched[i].segment = dispatched[j].segment
            /\ dispatched[i].nonce = dispatched[j].nonce) => i = j

\* C10: cumulative_nonce counts every kernel dispatch of the run and is
\* never reset; the device nonce word goes up by one (modulo 2^32) between
\* two dispatches of the same outer iteration and is drawn afresh, with the
\* host segment, at the head of every outer iteration.
C10_CumulativeNeverReset ==
    engine = "gpu" =>
        /\ cumulative_nonce = Len(dispatched)
        /\ \A i \in 1..(Len(dispatched) - 1) :
              IF dispatched[i + 1].outer = dispatched[i].outer
              THEN /\ dispatched[i + 1].segment = dispatched[i].segment
                   /\ dispatched[i + 1].nonce = WrappingInc(dispatched[i].nonce)
              ELSE /\ dispatched[i + 1].segment \in HostSegments
                   /\ dispatched[i + 1].nonce \in NonceStarts

C10_Witness ==
    /\ engine = "gpu"
    /\ cumulative_nonce >= 2
    /\ \E i, j \in 1..Len(dispatched) :
          /\ i < j
          /\ dispatched[i].outer < dispatched[j].outer
          /\ dispatched[i].segment = dispatched[j].segment
          /\ dispatched[i].nonce = dispatched[j].nonce

----------------------------------------------------------------------------
(* The codec functions applied to constructed addresses *)

\* a 20-byte address with exactly k leading zero bytes and t zero bytes;
\* the t-k zero bytes after the first non-zero byte sit right behind it
\* ("front") or at the end ("back"); v is the non-zero filler
Craft(k, t, place, v) ==
    [i \in 1..20 |->
        IF i <= k THEN 0
        ELSE IF i = k + 1 THEN v
        ELSE IF place = "front" /\ i <= k + 1 + (t - k) THEN 0
        ELSE IF place = "back" /\ i > 20 - (t - k) THEN 0
        ELSE v]

Craftable == {kt \in (0..20) \X (0..20) :
                 /\ kt[1] <= kt[2]
                 /\ (kt[2] <= 19 \/ kt[1] = 20)}

ThresholdsL == {0, 1, 3, 20}
ThresholdsT == {0, 5, 20, 255}

InitCodec ==
    /\ engine = "codec"
    /\ config \in CpuConfigs
    /\ \E kt \in Craftable, place \in {"front", "back"}, v \in {1, 255} :
          /\ z_k = kt[1]
          /\ z_t = kt[2]
          /\ z_addr = Craft(kt[1], kt[2], place, v)
    /\ z_i = 0
    /\ z_acc = ScanStart
    /\ z_gacc = ScanStart
    /\ z_verdict = << >>
    /\ file = << >> /\ lock = None /\ stdout = {}
    /\ c_pc = "off" /\ round = 0 /\ header = << >> /\ hash_header = Keccak_v256
    /\ w_lo = << >> /\ w_hi = << >> /\ w_next = << >> /\ w_pc = << >> /\ w_local = << >>
    /\ g_pc = "off" /\ salt = << >> /\ nonce = << >>
    /\ solutions = << >> /\ dev_solutions = << >> /\ dev_nonce = << >> /\ dev_message = << >>
    /\ g_slot = 0 /\ g_local = << >> /\ found = 0 /\ found_list = << >>
    /\ cumulative_nonce = 0 /\ dispatched = << >>
    /\ p_pc = "off" /\ p_lines = 0
    /\ HostOff /\ PoolOff

\* one iteration of "for (i, &b) in address.iter().enumerate()", both copies
ScanByte ==
    /\ engine = "codec"
    /\ z_i < Len(z_addr)
    /\ z_acc' = CpuScanStep(z_acc, z_i, z_addr[z_i + 1])
    /\ z_gacc' = GpuScanStep(z_gacc, z_i, z_addr[z_i + 1])
    /\ z_i' = z_i + 1
    /\ UNCHANGED << envVars, sinkVars, cpuVars, gpuVars, peerVars,
                    z_addr, z_k, z_t, z_verdict >>

\* the accept decision of both engines under two threshold pairs,
\* (lz2, tz2) no greater than (lz, tz)
Classify ==
    /\ engine = "codec"
    /\ z_i = Len(z_addr)
    /\ z_verdict = << >>
    /\ \E lz \in ThresholdsL, tz \in ThresholdsT :
       \E lz2 \in {x \in ThresholdsL : x <= lz}, tz2 \in {x \in ThresholdsT : x <= tz} :
          z_verdict' = <<
             [lz |-> lz, tz |-> tz, lz2 |-> lz2, tz2 |-> tz2,
              cpu  |-> CpuAccepted(MkConfig(255, lz, tz), z_acc, rewards),
              cpu2 |-> CpuAccepted(MkConfig(255, lz2, tz2), z_acc, rewards),
              gpu  |-> KernelAccept(z_addr, lz, tz),
              gpu2 |-> KernelAccept(z_addr, lz2, tz2)] >>
    /\ UNCHANGED << envVars, sinkVars, cpuVars, gpuVars, peerVars,
                    z_addr, z_k, z_t, z_i, z_acc, z_gacc >>

NextCodec == ScanByte \/ Classify

SpecCodec == InitCodec /\ [][NextCodec]_vars

----------------------------------------------------------------------------
(* Claims about the codec functions (checked under SpecCodec) *)

\* C6 as stated: the scan of an address built with exactly k leading and t
\* total zero bytes ends with leading = k and total = t, for all k <= t <= 20.
C6_AsStated ==
    z_i = 20 =>
        /\ z_acc.leading = z_k /\ z_acc.total = z_t
        /\ z_gacc.leading = z_k /\ z_gacc.total = z_t

\* C6: in both engines the scan of an address built with exactly k leading and
\* t total zero bytes ends with total = t, and with leading = k when the
\* address has a non-zero byte (k <= t <= 19); for the all-zero address
\* (k = t = 20) leading is the sentinel 21.
C6_ZeroMetrics ==
    z_i = 20 =>
        /\ z_acc.total = z_t
        /\ z_gacc.total = z_t
        /\ z_acc.leading = (IF z_k = 20 THEN 21 ELSE z_k)
        /\ z_gacc.leading = (IF z_k = 20 THEN 21 ELSE z_k)

C6_Witness ==
    /\ z_i = 20
    /\ z_k = 2 /\ z_t = 5
    /\ z_acc = [total |-> 5, leading |-> 2]
    /\ z_gacc = z_acc

----------------------------------------------------------------------------
(* gpu() call by call: every call into OpenCL, the terminal and the results *)
(* file with the outcomes it can have (SpecHost).  What the kernel finds is *)
(* left open here: a dispatch reports any number of solution words.         *)

\* the most dispatches followed, and the most solution words of one dispatch
MaxHostDispatch == 2
HostSlots == 1

\* the largest device nonce word, 0xffffffff in the program, scaled down
HOST_NONCE_MAX == 2

\* const WORK_SIZE
WORK_SIZE == 536870912

\* CL_DEVICE_MAX_WORK_GROUP_SIZE of the devices
MaxWgSizes == {64, 1024}

\* the OpenCL installations: the platform names in list order, whether there
\* is a default platform, the number of devices of the platform and the
\* largest work-group size of the device
Installations ==
    [platforms : {<<"Intel">>, <<"Intel", "NVIDIA">>},
     default_ok : BOOLEAN,
     devices : 1..2,
     max_wg_size : MaxWgSizes]

Min(a, b) == IF a <= b THEN a ELSE b

\* std::cmp::min(max_wg_size as u32, 512); the cast leaves the sizes that
\* devices report, all far below 2^32, as they are
LocalWorkSize(max_wg_size) == Min(max_wg_size, 512)

\* ((vectorized_work_size + local_work_size - 1) / local_work_size) * local_work_size
GlobalWorkSize(local_work_size) ==
    (((WORK_SIZE \div 8) + local_work_size - 1) \div local_work_size) * local_work_size

\* message_buffer, nonce_buffer, solutions_buffer in the order they are built
BufferNames == <<"message", "nonce", "solutions">>

BufferOf_Fresh(bufs, name) == Len(bufs) + 1

\* the buffer a variable of gpu() is bound to: the one built under that name
BufferOf(bufs, name) == CHOOSE i \in 1..Len(bufs) : bufs[i] = name

Touch(op, names) == { [op |-> op, name |-> n, buf |-> BufferOf(h_bufs, n)] : n \in names }

\* a call failed: `how` is "Err" when the error is returned with `?`,
\* "panicked" when it is unwrapped, "default" when a value replaces it
Fault(op, how) == h_faults' = Append(h_faults, [op |-> op, how |-> how])

\* the call failed and gpu() ends there
Fail(op, how) == Fault(op, how) /\ h_pc' = how

\* output_file()
OpenOutput ==
    /\ h_pc = "open"
    /\ \/ h_pc' = "platform" /\ UNCHANGED h_faults
       \/ Fail("open", "panicked")
    /\ UNCHANGED << engineVars, poolVars, textVars, h_env, h_dev, h_bufs, h_touched, h_loop, h_trace >>

\* the first platform whose name contains "NVIDIA", else the default one
SelectPlatform ==
    /\ h_pc = "platform"
    /\ LET names == h_env.platforms
           hits == { i \in 1..Len(names) : names[i] = "NVIDIA" }
       IN  \/ /\ hits # {}
              /\ h_dev' = [h_dev EXCEPT !.platform = "NVIDIA"]
              /\ h_pc' = "device" /\ UNCHANGED h_faults
           \/ /\ hits = {} /\ h_env.default_ok
              /\ h_dev' = [h_dev EXCEPT !.platform = "default"]
              /\ h_pc' = "device" /\ UNCHANGED h_faults
           \/ /\ hits = {} /\ ~h_env.default_ok
              /\ Fail("default_platform", "panicked") /\ UNCHANGED h_dev
    /\ UNCHANGED << engineVars, poolVars, textVars, h_env, h_bufs, h_touched, h_loop, h_trace >>

\* Device::list_all(platform)? and Device::by_idx_wrap(platform, gpu_device)?
SelectDevice ==
    /\ h_pc = "device"
    /\ \/ /\ h_dev' = [h_dev EXCEPT !.device = config.gpu_device % h_env.devices]
          /\ h_pc' = "wg" /\ UNCHANGED h_faults
       \/ \E op \in {"list_all", "by_idx_wrap"} : Fail(op, "Err") /\ UNCHANGED h_dev
    /\ UNCHANGED << engineVars, poolVars, textVars, h_env, h_bufs, h_touched, h_loop, h_trace >>

\* device.max_wg_size().unwrap_or(256) and the two work sizes
QueryWorkGroup ==
    /\ h_pc = "wg"
    /\ \E answer \in {<<"Ok", h_env.max_wg_size>>, <<"Err", 0>>} :
          LET max_wg_size == IF answer[1] = "Err" THEN 256 ELSE answer[2]
              local == LocalWorkSize(max_wg_size)
          IN  /\ h_dev' = [h_dev EXCEPT !.max_wg_size = max_wg_size,
                                        !.local_work_size = local,
                                        !.global_work_size = GlobalWorkSize(local)]
              /\ IF answer[1] = "Err" THEN Fault("max_wg_size", "default")
                                  ELSE UNCHANGED h_faults
    /\ h_pc' = "context"
    /\ UNCHANGED << engineVars, poolVars, textVars, h_env, h_bufs, h_touched, h_loop, h_trace >>

\* Context::builder()...build()?, Program::builder()...build(&context)?,
\* Queue::new(&context, device, None)?
Build ==
    /\ h_pc \in {"context", "program", "queue"}
    /\ \/ /\ h_pc' = CASE h_pc = "context" -> "program"
                       [] h_pc = "program" -> "queue"
                       [] h_pc = "queue"   -> "alloc"
          /\ UNCHANGED h_faults
       \/ Fail(h_pc, "Err")
    /\ UNCHANGED << engineVars, poolVars, textVars, h_env, h_dev, h_bufs, h_touched, h_loop, h_trace >>

\* Buffer::builder()...build()? for the next of the three buffers
AllocBuffer ==
    /\ h_pc = "alloc"
    /\ \/ /\ h_bufs' = Append(h_bufs, BufferNames[Len(h_bufs) + 1])
          /\ h_pc' = IF Len(h_bufs) + 1 = Len(BufferNames) THEN "roll" ELSE "alloc"
          /\ UNCHANGED h_faults
       \/ Fail("buffer", "Err") /\ UNCHANGED h_bufs
    /\ UNCHANGED << engineVars, poolVars, textVars, h_env, h_dev, h_touched, h_loop, h_trace >>

\* the head of the outer loop: a random salt and nonce, three buffer writes
HostRoll ==
    /\ h_pc = "roll"
    /\ h_loop.dispatches < MaxHostDispatch
    /\ \E segment \in {0, 1}, start \in {0, HOST_NONCE_MAX} :
          \/ /\ h_loop' = [h_loop EXCEPT !.salt = segment, !.nonce = start, !.words = 0]
             /\ h_touched' = h_touched \cup Touch("write", {"message", "nonce", "solutions"})
             /\ h_trace' = Append(h_trace, [ev |-> "segment", salt |-> segment])
             /\ h_pc' = "dispatch" /\ UNCHANGED h_faults
          \/ \E k \in 1..3 :
                /\ h_touched' = h_touched \cup Touch("write", { BufferNames[i] : i \in 1..k })
                /\ h_trace' = Append(h_trace, [ev |-> "segment", salt |-> segment])
                /\ Fail("write", "Err") /\ UNCHANGED h_loop
    /\ UNCHANGED << engineVars, poolVars, textVars, h_env, h_dev, h_bufs >>

\* kernel_builder(..).build()?, three set_arg(..)?, kern.cmd()...enq()?
HostDispatch ==
    /\ h_pc = "dispatch"
    /\ \/ \E words \in 0..HostSlots :
             /\ h_loop' = [h_loop EXCEPT !.words = words, !.dispatches = @ + 1]
             /\ h_touched' = h_touched \cup Touch("bind", {"message", "nonce", "solutions"})
             /\ h_trace' = Append(h_trace,
                    [ev |-> "dispatch", salt |-> h_loop.salt, nonce |-> h_loop.nonce,
                     global |-> h_dev.global_work_size, local |-> h_dev.local_work_size])
             /\ h_pc' = "report" /\ UNCHANGED h_faults
       \/ \E op \in {"kernel", "set_arg", "enq"} :
             /\ Fail(op, "Err")
             /\ UNCHANGED << h_loop, h_touched, h_trace >>
    /\ UNCHANGED << engineVars, poolVars, textVars, h_env, h_dev, h_bufs >>

\* the progress report: skipped unless a second has passed, and ended by
\* the first terminal call that fails
HostReport ==
    /\ h_pc = "report"
    /\ \/ \E print_output \in BOOLEAN :
             /\ h_loop' = [h_loop EXCEPT !.reports = @ + (IF print_output THEN 1 ELSE 0)]
             /\ h_pc' = "count" /\ UNCHANGED h_faults
       \/ \E op \in {"clear_screen", "write_line"} : Fail(op, "Err") /\ UNCHANGED h_loop
    /\ UNCHANGED << engineVars, poolVars, textVars, h_env, h_dev, h_bufs, h_touched, h_trace >>

\* cumulative_nonce += 1, the sleep, solutions_buffer.read(..).enq()? and
\* the test that ends the inner loop
HostRead ==
    /\ h_pc = "count"
    /\ \/ /\ h_loop' = [h_loop EXCEPT !.cumulative_nonce = @ + 1]
          /\ h_touched' = h_touched \cup Touch("read", {"solutions"})
          /\ h_pc' = IF h_loop.words # 0 THEN "drain" ELSE "bump"
          /\ UNCHANGED h_faults
       \/ /\ h_loop' = [h_loop EXCEPT !.cumulative_nonce = @ + 1]
          /\ Fail("read", "Err") /\ UNCHANGED h_touched
    /\ UNCHANGED << engineVars, poolVars, textVars, h_env, h_dev, h_bufs, h_trace >>

\* nonce[0] += 1 and nonce_buffer.write(..).enq()?
HostBump ==
    /\ h_pc = "bump"
    /\ h_loop.dispatches < MaxHostDispatch
    /\ \/ /\ h_loop.nonce < HOST_NONCE_MAX
          /\ \/ /\ h_loop' = [h_loop EXCEPT !.nonce = @ + 1]
                /\ h_touched' = h_touched \cup Touch("write", {"nonce"})
                /\ h_pc' = "dispatch" /\ UNCHANGED h_faults
             \/ /\ h_loop' = [h_loop EXCEPT !.nonce = @ + 1]
                /\ h_touched' = h_touched \cup Touch("write", {"nonce"})
                /\ Fail("write", "Err")
       \/ /\ h_loop.nonce = HOST_NONCE_MAX
          /\ \/ /\ h_loop' = [h_loop EXCEPT !.nonce = 0]
                /\ h_touched' = h_touched \cup Touch("write", {"nonce"})
                /\ h_pc' = "dispatch" /\ UNCHANGED h_faults
             \/ Fail("nonce", "panicked") /\ UNCHANGED << h_loop, h_touched >>
    /\ UNCHANGED << engineVars, poolVars, textVars, h_env, h_dev, h_bufs, h_trace >>

\* the drain loop: one non-zero word is hashed again and recorded, with the
\* three calls on the file unwrapped by expect()
HostDrain ==
    /\ h_pc = "drain"
    /\ \/ /\ h_loop.words > 0
          /\ \/ /\ h_loop' = [h_loop EXCEPT !.words = @ - 1, !.found = @ + 1]
                /\ h_trace' = Append(h_trace, [ev |-> "line", salt |-> h_loop.salt])
                /\ UNCHANGED << h_pc, h_faults >>
             \/ \E op \in {"lock", "writeln", "unlock"} :
                   /\ h_trace' = IF op = "lock" THEN h_trace
                                 ELSE Append(h_trace, [ev |-> "line", salt |-> h_loop.salt])
                   /\ Fail(op, "panicked") /\ UNCHANGED h_loop
       \/ /\ h_loop.words = 0
          /\ h_pc' = "roll"
          /\ UNCHANGED << h_loop, h_trace, h_faults >>
    /\ UNCHANGED << engineVars, poolVars, textVars, h_env, h_dev, h_bufs, h_touched >>

\* the engines of Spec and the codec run are not part of this specification
EnginesOff ==
    /\ file = << >> /\ lock = None /\ stdout = {}
    /\ c_pc = "off" /\ round = 0 /\ header = << >> /\ hash_header = Keccak_v256
    /\ w_lo = << >> /\ w_hi = << >> /\ w_next = << >> /\ w_pc = << >> /\ w_local = << >>
    /\ g_pc = "off" /\ salt = << >> /\ nonce = << >>
    /\ solutions = << >> /\ dev_solutions = << >> /\ dev_nonce = << >> /\ dev_message = << >>
    /\ g_slot = 0 /\ g_local = << >> /\ found = 0 /\ found_list = << >>
    /\ cumulative_nonce = 0 /\ dispatched = << >>
    /\ p_pc = "off" /\ p_lines = 0
    /\ z_addr = << >> /\ z_k = 0 /\ z_t = 0 /\ z_i = 0
    /\ z_acc = ScanStart /\ z_gacc = ScanStart /\ z_verdict = << >>

InitHost ==
    /\ engine = "gpu" /\ config \in GpuConfigs
    /\ EnginesOff /\ PoolOff
    /\ h_pc = "open"
    /\ h_env \in Installations
    /\ h_dev = [platform |-> None, device |-> None, max_wg_size |-> None,
                local_work_size |-> None, global_work_size |-> None]
    /\ h_bufs = << >> /\ h_touched = {}
    /\ h_loop = [salt |-> 0, nonce |-> 0, words |-> 0, dispatches |-> 0,
                 reports |-> 0, cumulative_nonce |-> 0, found |-> 0]
    /\ h_trace = << >> /\ h_faults = << >>

NextHost ==
    \/ OpenOutput \/ SelectPlatform \/ SelectDevice \/ QueryWorkGroup \/ Build
    \/ AllocBuffer \/ HostRoll \/ HostDispatch \/ HostReport \/ HostRead
    \/ HostBump \/ HostDrain

SpecHost == InitHost /\ [][NextHost]_vars

\* the positions inside the outer and inner loops of gpu()
LoopSites == {"roll", "dispatch", "report", "count", "bump", "drain"}

\* C12: in every state of the outer and inner loops exactly three buffers
\* have been built, one per name, and every write, argument binding and
\* read made so far used the buffer built under its name before the loop.
C12_BuffersAllocatedOnce ==
    /\ h_pc \in LoopSites => h_bufs = BufferNames
    /\ \A t \in h_touched : t.buf \in 1..3 /\ h_bufs[t.buf] = t.name

C12_Witness ==
    /\ h_pc = "roll"
    /\ Cardinality({ i \in 1..Len(h_trace) : h_trace[i].ev = "segment" }) = 2
    /\ \E i \in 1..Len(h_trace) : h_trace[i].ev = "line"
    /\ { t.op : t \in h_touched } = {"write", "bind", "read"}
    /\ h_loop.dispatches = 2

\* C13 as stated: a failed platform, device, queue, buffer or kernel call
\* is returned to the caller as an error and is the last thing gpu() does:
\* no value stands in for the failed call and nothing is dispatched after it.
C13_AsStated ==
    \A i \in 1..Len(h_faults) :
        h_faults[i].op \in {"default_platform", "list_all", "by_idx_wrap", "max_wg_size",
                            "context", "program", "queue", "buffer", "write",
                            "kernel", "set_arg", "enq", "read"}
        => /\ h_faults[i].how = "Err"
           /\ h_pc = "Err"
           /\ i = Len(h_faults)

\* C15 as stated: the progress report has no bearing on the search: whether
\* it is skipped, printed or fails, gpu() goes on to the same next call with
\* the same segment, nonce and pending solutions.
C15_AsStated ==
    [][h_pc = "report" =>
          /\ h_pc' = "count"
          /\ h_trace' = h_trace
          /\ h_loop'.salt = h_loop.salt /\ h_loop'.nonce = h_loop.nonce
          /\ h_loop'.words = h_loop.words]_vars

----------------------------------------------------------------------------
(* cpu() when a call on the results file fails (SpecSink).  The three calls *)
(* are unwrapped with expect(), so a failure panics the worker that made    *)
(* the call.  What the other workers do then depends on the panic strategy  *)
(* of the build, which the sources do not fix: with "abort" the process     *)
(* ends at once; with "unwind" rayon lets the other workers finish their    *)
(* sub-ranges and resumes the panic in cpu() when the parallel loop ends.   *)
(* Which candidates are accepted is left open here.                         *)

\* the nonces of each worker's sub-range
SinkNonces == 2

\* the closure up to the reward lookup: the candidate is dropped or accepted
SinkEvaluate(w) ==
    /\ k_pc[w] = "eval" /\ k_left[w] > 0
    /\ \E accepted \in BOOLEAN :
          k_pc' = [k_pc EXCEPT ![w] = IF accepted THEN "lock" ELSE "eval"]
    /\ k_left' = [k_left EXCEPT ![w] = @ - 1]
    /\ k_log' = Append(k_log, [ev |-> "eval", w |-> w, op |-> "hash"])
    /\ UNCHANGED << k_build, engineVars, hostVars, textVars >>

\* file.lock_exclusive().expect(..), writeln!(..).expect(..) and
\* FileExt::unlock(&file).expect(..)
SinkCall(w) ==
    /\ k_pc[w] \in {"lock", "write", "unlock"}
    /\ \/ /\ k_pc' = [k_pc EXCEPT ![w] = CASE @ = "lock"   -> "write"
                                          [] @ = "write"  -> "unlock"
                                          [] @ = "unlock" -> "eval"]
          /\ k_log' = IF k_pc[w] = "write"
                      THEN Append(k_log, [ev |-> "line", w |-> w, op |-> "write"])
                      ELSE k_log
       \/ /\ k_log' = Append(k_log, [ev |-> "fail", w |-> w, op |-> k_pc[w]])
          /\ k_pc' = IF k_build = "abort"
                     THEN [v \in Workers |-> "aborted"]
                     ELSE [k_pc EXCEPT ![w] = "panicked"]
    /\ UNCHANGED << k_build, k_left, engineVars, hostVars, textVars >>

\* the end of the parallel loop: a worker's panic is resumed in cpu()
SinkJoin ==
    /\ \A w \in Workers : k_pc[w] = "panicked" \/ (k_pc[w] = "eval" /\ k_left[w] = 0)
    /\ k_pc' = [w \in Workers |->
                  IF \E v \in Workers : k_pc[v] = "panicked" THEN "aborted" ELSE "done"]
    /\ UNCHANGED << k_build, k_left, k_log, engineVars, hostVars, textVars >>

InitSink ==
    /\ engine = "cpu" /\ config \in CpuConfigs
    /\ EnginesOff /\ HostOff
    /\ m_src = << >> /\ a_args = << >> /\ a_result = None
    /\ k_build \in {"unwind", "abort"}
    /\ k_pc = [w \in Workers |-> "eval"]
    /\ k_left = [w \in Workers |-> SinkNonces]
    /\ k_log = << >>

NextSink == (\E w \in Workers : SinkEvaluate(w) \/ SinkCall(w)) \/ SinkJoin

SpecSink == InitSink /\ [][NextSink]_vars

\* C14 as stated: once a call on the results file has failed, no candidate
\* is evaluated and no result line is written by any worker.
C14_AsStated ==
    \A i \in 1..Len(k_log) : \A j \in (i + 1)..Len(k_log) :
        k_log[i].ev = "fail" => k_log[j].ev \notin {"eval", "line"}

----------------------------------------------------------------------------
(* mk_kernel_src, one writeln!/push_str at a time (SpecKernel).  A line of  *)
(* `src` is kept as the name it defines, the index in the name and the      *)
(* value; the text of keccak256.cl is one opaque entry.                     *)

KernelConfigs == {MkConfig(0, 3, 5), MkConfig(1, 20, 255)}

\* Iterator::enumerate
Enumerate(s) == [i \in 1..Len(s) |-> << i - 1, s[i] >>]

HashIndex_Contiguous(i) == i + 40

\* hash.enumerate().map(|(i, x)| (i + 52, x))
HashIndex(i) == i + 52

\* factory.chain(caller).enumerate().chain(hash)
KernelItems(cfg) ==
    LET hash == Enumerate(cfg.init_code_hash)
    IN  Enumerate(cfg.factory_address \o cfg.calling_address)
        \o [k \in 1..Len(hash) |-> << HashIndex(hash[k][1]), hash[k][2] >>]

DefineLine_FromZero(item) == [name |-> "S", index |-> item[1], value |-> item[2]]

\* writeln!(src, "#define S_{} {}u", i + 1, x)
DefineLine(item) == [name |-> "S", index |-> item[1] + 1, value |-> item[2]]

\* one iteration of the for loop
PushDefine ==
    /\ engine = "kernel_src"
    /\ Len(m_src) < Len(KernelItems(config))
    /\ m_src' = Append(m_src, DefineLine(KernelItems(config)[Len(m_src) + 1]))
    /\ UNCHANGED << engineVars, hostVars, poolVars, a_args, a_result >>

\* the two threshold definitions
PushThresholds ==
    /\ engine = "kernel_src"
    /\ Len(m_src) = Len(KernelItems(config))
    /\ m_src' = m_src \o
         << [name |-> "LEADING_ZEROES", index |-> 0, value |-> config.leading_zeroes_threshold],
            [name |-> "TOTAL_ZEROES", index |-> 0, value |-> config.total_zeroes_threshold] >>
    /\ UNCHANGED << engineVars, hostVars, poolVars, a_args, a_result >>

\* src.push_str(KERNEL_SRC)
PushKernel ==
    /\ engine = "kernel_src"
    /\ Len(m_src) = Len(KernelItems(config)) + 2
    /\ m_src' = Append(m_src, [name |-> "KERNEL_SRC", index |-> 0, value |-> 0])
    /\ UNCHANGED << engineVars, hostVars, poolVars, a_args, a_result >>

InitKernel ==
    /\ engine = "kernel_src" /\ config \in KernelConfigs
    /\ EnginesOff /\ HostOff
    /\ k_build = "off" /\ k_pc = << >> /\ k_left = << >> /\ k_log = << >>
    /\ m_src = << >> /\ a_args = << >> /\ a_result = None

NextKernel == PushDefine \/ PushThresholds \/ PushKernel

SpecKernel == InitKernel /\ [][NextKernel]_vars

\* mk_kernel_src has returned
SrcComplete == m_src # << >> /\ m_src[Len(m_src)].name = "KERNEL_SRC"

\* the byte constants defined in `src`
SrcBytes == { k \in 1..Len(m_src) : m_src[k].name = "S" }

\* C16 as stated: the returned string defines 56 byte constants, the k-th
\* of them named S_k, then LEADING_ZEROES and TOTAL_ZEROES, then the kernel.
C16_AsStated ==
    SrcComplete =>
        /\ Cardinality(SrcBytes) = 56
        /\ \A k \in SrcBytes : m_src[k].index = k
        /\ m_src[Len(m_src) - 2].name = "LEADING_ZEROES"
        /\ m_src[Len(m_src) - 1].name = "TOTAL_ZEROES"

\* C16: the returned string defines 72 byte constants, one per byte of
\* factory_address || calling_address || init_code_hash in that order: the
\* 40 address bytes as S_1..S_40 and the 32 hash bytes as S_53..S_84 (the
\* index is the byte's place in the 85-byte message); then LEADING_ZEROES
\* and TOTAL_ZEROES with the two thresholds; the kernel text comes last.
C16_KernelDefines ==
    SrcComplete =>
        LET bytes == config.factory_address \o config.calling_address \o config.init_code_hash
        IN  /\ Len(m_src) = 75 /\ SrcBytes = 1..72
            /\ \A k \in 1..72 :
                  /\ m_src[k].value = bytes[k]
                  /\ m_src[k].index = (IF k <= 40 THEN k ELSE k + 12)
            /\ m_src[73] = [name |-> "LEADING_ZEROES", index |-> 0,
                            value |-> config.leading_zeroes_threshold]
            /\ m_src[74] = [name |-> "TOTAL_ZEROES", index |-> 0,
                            value |-> config.total_zeroes_threshold]
            /\ \A k \in 1..74 : m_src[k].name # "KERNEL_SRC"

C16_Witness ==
    /\ SrcComplete
    /\ m_src[40].index = 40 /\ m_src[41].index = 53 /\ m_src[72].index = 84
    /\ m_src[73].value = 20 /\ m_src[74].value = 255

----------------------------------------------------------------------------
(* Config::new applied to command lines (SpecArgs).  An argument is a       *)
(* string, kept as the sequence of its characters, or is not valid Unicode, *)
(* in which case std::env::Args panics when it is asked for it.             *)

HexChars == << "0", "1", "2", "3", "4", "5", "6", "7", "8", "9",
               "a", "b", "c", "d", "e", "f", "A", "B", "C", "D", "E", "F" >>

\* the value of a hexadecimal digit of either case, -1 for any other character
HexVal(c) ==
    IF \E i \in 1..22 : HexChars[i] = c
    THEN LET i == CHOOSE i \in 1..22 : HexChars[i] = c
         IN  IF i <= 16 THEN i - 1 ELSE i - 7
    ELSE -1

\* hex::decode: an odd length or a character that is no hex digit is an error
hex_decode(str) ==
    IF Len(str) % 2 = 1 \/ \E i \in 1..Len(str) : HexVal(str[i]) < 0
    THEN [ok |-> FALSE, bytes |-> << >>]
    ELSE [ok |-> TRUE,
          bytes |-> [i \in 1..(Len(str) \div 2) |->
                        HexVal(str[2 * i - 1]) * 16 + HexVal(str[2 * i])]]

\* hex::encode, for writing the inputs
hex_encode(bytes) ==
    [i \in 1..(2 * Len(bytes)) |->
        LET b == bytes[(i + 1) \div 2]
        IN  HexChars[(IF i % 2 = 1 THEN b \div 16 ELSE b % 16) + 1]]

RECURSIVE ParseDigits(_, _)
\* the decimal digits of a u8, -1 for a bad digit or a value above 255
ParseDigits(str, acc) ==
    IF str = << >> THEN acc
    ELSE LET d == HexVal(Head(str))
         IN  IF d < 0 \/ d > 9 \/ acc * 10 + d > 255 THEN -1
             ELSE ParseDigits(Tail(str), acc * 10 + d)

\* str::parse::<u8>: an optional "+", then at least one decimal digit
parse_u8(str) ==
    LET digits == IF str # << >> /\ Head(str) = "+" THEN Tail(str) ELSE str
    IN  IF digits = << >> THEN -1 ELSE ParseDigits(digits, 0)

Err(message) == [kind |-> "Err", value |-> message]

\* Config::new: the arguments are fetched, decoded, converted and range
\* checked in this order, and the first failure is returned
Config_new(args) ==
    LET arg(i, default) == IF i <= Len(args) THEN args[i].text ELSE default
        factory == hex_decode(arg(2, << >>))
        caller  == hex_decode(arg(3, << >>))
        hash    == hex_decode(arg(4, << >>))
        gpu_device == parse_u8(arg(5, << "2", "5", "5" >>))
        leading == parse_u8(arg(6, << "3" >>))
        total   == parse_u8(arg(7, << "5" >>))
    IN  IF \E i \in 1..Min(Len(args), 7) : ~args[i].utf8 THEN [kind |-> "panic", value |-> "args"]
        ELSE IF Len(args) < 2 THEN Err("didn't get a factory_address argument")
        ELSE IF Len(args) < 3 THEN Err("didn't get a calling_address argument")
        ELSE IF Len(args) < 4 THEN Err("didn't get an init_code_hash argument")
        ELSE IF ~factory.ok THEN Err("could not decode factory address argument")
        ELSE IF ~caller.ok THEN Err("could not decode calling address argument")
        ELSE IF ~hash.ok THEN Err("could not decode initialization code hash argument")
        ELSE IF Len(factory.bytes) # 20 THEN Err("invalid length for factory address argument")
        ELSE IF Len(caller.bytes) # 20 THEN Err("invalid length for calling address argument")
        ELSE IF Len(hash.bytes) # 32 THEN Err("invalid length for initialization code hash argument")
        ELSE IF gpu_device < 0 THEN Err("invalid gpu device value")
        ELSE IF leading < 0 THEN Err("invalid leading zeroes threshold value supplied")
        ELSE IF total < 0 THEN Err("invalid total zeroes threshold value supplied")
        ELSE IF leading > 20 THEN Err("invalid value for leading zeroes threshold argument")
        ELSE IF total > 20 /\ total # 255
             THEN Err("invalid value for total zeroes threshold argument")
        ELSE [kind |-> "Ok",
              value |-> [factory_address |-> factory.bytes, calling_address |-> caller.bytes,
                         init_code_hash |-> hash.bytes, gpu_device |-> gpu_device,
                         leading_zeroes_threshold |-> leading,
                         total_zeroes_threshold |-> total]]

Utf8(text) == [utf8 |-> TRUE, text |-> text]

\* the command lines: the program name and up to six arguments, drawn from
\* well-formed and malformed strings
CommandLines ==
    LET good20 == hex_encode(FactoryA)
        good32 == hex_encode(InitHashA)
        F == { Utf8(good20), Utf8(hex_encode([i \in 1..20 |-> 171 + i])),
               Utf8(SubSeq(good20, 1, 38)), Utf8(SubSeq(good20, 1, 39)),
               Utf8(<< "0", "x" >> \o good20), Utf8([good20 EXCEPT ![7] = "g"]),
               Utf8([i \in 1..40 |-> IF good20[i] = "a" THEN "A" ELSE good20[i]]),
               [utf8 |-> FALSE, text |-> << >>] }
        C == { Utf8(hex_encode(CallerA)), Utf8(hex_encode(CallerA) \o << "0", "0" >>) }
        H == { Utf8(good32), Utf8(SubSeq(good32, 1, 62)), Utf8([good32 EXCEPT ![64] = " "]) }
        D == { Utf8(<< "0" >>), Utf8(<< "2", "5", "6" >>) }
        L == { Utf8(<< "0" >>), Utf8(<< "2", "0" >>), Utf8(<< "2", "1" >>),
               Utf8(<< "+", "5" >>), Utf8(<< "-", "1" >>), Utf8(<< >>) }
        T == { Utf8(<< "0" >>), Utf8(<< "2", "0" >>), Utf8(<< "2", "1" >>),
               Utf8(<< "2", "5", "5" >>), Utf8(<< "2", "5", "6" >>),
               [utf8 |-> FALSE, text |-> << >>] }
    IN  { SubSeq(<< Utf8(<< "c", "2" >>), f, c, h, d, l, t >>, 1, n) :
             n \in 0..7, f \in F, c \in C, h \in H, d \in D, l \in L, t \in T }

\* a call of Config::new
CallConfigNew ==
    /\ engine = "args" /\ a_result.kind = "pending"
    /\ a_result' = Config_new(a_args)
    /\ UNCHANGED << a_args, m_src, engineVars, hostVars, poolVars >>

InitArgs ==
    /\ engine = "args" /\ config \in CpuConfigs
    /\ EnginesOff /\ HostOff
    /\ k_build = "off" /\ k_pc = << >> /\ k_left = << >> /\ k_log = << >>
    /\ m_src = << >> /\ a_result = [kind |-> "pending", value |-> ""]
    /\ a_args \in CommandLines

NextArgs == CallConfigNew

SpecArgs == InitArgs /\ [][NextArgs]_vars

\* the three hex arguments are there and decode to 20, 20 and 32 bytes, and
\* the thresholds, given or defaulted, are in 0..=20 and in 0..=20 or 255
ArgsInRange ==
    LET text(i, default) == IF i <= Len(a_args) THEN a_args[i].text ELSE default
        leading == parse_u8(text(6, << "3" >>))
        total == parse_u8(text(7, << "5" >>))
    IN  /\ Len(a_args) >= 4
        /\ \A i \in 2..4 : hex_decode(a_args[i].text).ok
        /\ Len(hex_decode(a_args[2].text).bytes) = 20
        /\ Len(hex_decode(a_args[3].text).bytes) = 20
        /\ Len(hex_decode(a_args[4].text).bytes) = 32
        /\ leading \in 0..20
        /\ total \in 0..20 \cup {255}

\* C17 as stated: Config::new returns a Config only for arguments in range,
\* and returns an error value for every other command line.
C17_AsStated ==
    a_result.kind # "pending" =>
        /\ a_result.kind = "Ok" => ArgsInRange
        /\ ~ArgsInRange => a_result.kind = "Err"

----------------------------------------------------------------------------
(* Claims about the reward lookup and the GPU loop (checked under Spec) *)

\* the key leading*20+total of a printed address
AddressKey(address) == FirstNonZero(address) * 20 + ZeroCount(address)

\* the result texts of the engines in the file
ResultTexts ==
    { i \in 1..Len(file) : file[i].kind = "text" /\ file[i].by.eng \in {"cpu", "gpu"} }

\* C11 as stated: every candidate either has a label in the reward table or
\* is not recorded: no result in the file has an unmapped key.
C11_AsStated ==
    \A i \in ResultTexts : RewardGet(rewards, AddressKey(file[i].text.address)) # None

\* C18 as stated: the control thread of gpu() only moves along the cycle
\* roll -> dispatch -> read -> (drain -> roll | dispatch); it enters the
\* drain only with a non-zero word read back; after a read of all zeroes it
\* adds one to the nonce word, writes it to the nonce buffer and dispatches
\* again; and it never stops.
C18_AsStated ==
    [][(engine = "gpu" /\ gpuVars' # gpuVars) =>
          /\ << g_pc, g_pc' >> \in
                { <<"roll", "enqueue">>, <<"enqueue", "read">>, <<"read", "drain">>,
                  <<"read", "enqueue">>, <<"drain", "drain">>, <<"drain", "lock">>,
                  <<"lock", "write">>, <<"write", "newline">>, <<"newline", "unlock">>,
                  <<"unlock", "drain">>, <<"drain", "roll">> }
          /\ (g_pc = "read" /\ g_pc' = "drain") =>
                \E i \in 1..Len(solutions') : solutions'[i] # NoSolution
          /\ (g_pc = "read" /\ \A i \in 1..Len(dev_solutions) : dev_solutions[i] = NoSolution) =>
                /\ g_pc' = "enqueue"
                /\ nonce' = WrappingInc(nonce)
                /\ dev_nonce' = nonce']_vars

\* the last kernel dispatch
LastDispatch == dispatched[Len(dispatched)]

\* C19: the head of every outer iteration leaves the host solutions array
\* and the device solutions buffer all zero, and both are all zero at every
\* dispatch; the words the drain works on are the ones the last dispatch
\* produced, from an all-zero buffer, under the host segment and nonce of
\* the current outer iteration, and they do not change during the drain.
C19_NoStaleSolution ==
    [][(engine = "gpu" /\ gpuVars' # gpuVars) =>
          /\ g_pc \in {"roll", "enqueue"} =>
                /\ g_pc = "roll" =>
                      \A i \in 1..SolutionSlots :
                          solutions'[i] = NoSolution /\ dev_solutions'[i] = NoSolution
                /\ g_pc = "enqueue" =>
                      \A i \in 1..SolutionSlots :
                          solutions[i] = NoSolution /\ dev_solutions[i] = NoSolution
          /\ (g_pc = "read" /\ g_pc' = "drain") =>
                /\ LastDispatch.segment = salt /\ LastDispatch.nonce = nonce
                /\ LastDispatch.outer = Len(found_list)
                /\ solutions' = KernelRun(config, salt, nonce,
                                           [i \in 1..SolutionSlots |-> NoSolution])
          /\ g_pc \in {"drain", "lock", "write", "newline", "unlock"} =>
                solutions' = solutions /\ salt' = salt]_vars

C19_Witness ==
    /\ engine = "gpu" /\ g_pc = "drain" /\ g_slot = 0
    /\ Len(found_list) >= 1
    /\ LastDispatch.outer = Len(found_list)
    /\ \E i \in 1..Len(solutions) : solutions[i] # NoSolution

\* the chunks the GPU engine appended to the file, in file order
GpuChunks(f) == SelectSeq(f, LAMBDA c : c.by.eng = "gpu")

\* the non-zero words of the solutions array, in array order
NonZeroWords(s) == SelectSeq(s, LAMBDA word : word # NoSolution)

\* C20: when the drain loop ends, the GPU engine has appended since the
\* last dispatch exactly one line (a text, then its newline) per non-zero
\* word of the solutions array, in array order, each line being the result
\* of that word; `found` and the length of found_list have both grown by
\* the number of non-zero words.
C20_OneLinePerWord ==
    [][(engine = "gpu" /\ g_pc = "drain" /\ g_pc' = "roll") =>
          LET words == NonZeroWords(solutions)
              lines == GpuChunks(file)
              before == LastDispatch.outer
          IN  /\ Len(found_list) = before + Len(words)
              /\ found = before + Len(words)
              /\ Len(lines) = 2 * found
              /\ \A k \in 1..Len(words) :
                    LET r == GpuResult(config, rewards, salt, words[k])
                    IN  /\ lines[2 * (before + k) - 1].kind = "text"
                        /\ lines[2 * (before + k) - 1].text = r.output
                        /\ lines[2 * (before + k)].kind = "nl"
                        /\ found_list[before + k] = r.show]_vars

C20_Witness ==
    /\ engine = "gpu" /\ g_pc = "roll"
    /\ found = 2 /\ Len(found_list) = 2
    /\ Len(NonZeroWords(solutions)) = 2
    /\ Len(GpuChunks(file)) = 4

----------------------------------------------------------------------------
(* Claims about the nonces of a CPU round, the work sizes, the nonce word,  *)
(* the kernel constants and the reward key                                  *)

\* C21: within a round every evaluation takes a nonce of the range that no
\* worker has evaluated before, absorbs it as its 6 low bytes in
\* little-endian order - a segment no other nonce of the range has - and
\* computes the address that the header and the nonce determine.
C21_NoNonceTwice ==
    [][(engine = "cpu" /\ c_pc = "fan_out") =>
          \A w \in Workers :
             /\ w_next'[w] # w_next[w] => w_next'[w] = w_next[w] + 1
             /\ (w_pc[w] = "eval" /\ (w_pc'[w] # "eval" \/ w_next'[w] # w_next[w])) =>
                LET n == w_next[w]
                    cand == w_local'[w][1].cand
                IN  /\ n \in NonceRange.start..(NonceRange.end - 1)
                    /\ n \notin Evaluated
                    /\ \A v \in Workers \ {w} : w_pc[v] # "done" => w_next[v] # n
                    /\ cand.nonce = n
                    /\ cand.segment = LeBytes(n, 6)
                    /\ \A m \in (NonceRange.start..(NonceRange.end - 1)) \ {n} :
                          LeBytes(m, 6) # cand.segment
                    /\ cand.address = RoundAddress(n)]_vars

C21_Witness ==
    /\ engine = "cpu" /\ c_pc = "fan_out"
    /\ \A w \in Workers : w_pc[w] = "done" /\ w_lo[w] < w_hi[w]
    /\ Evaluated = NonceRange.start..(NonceRange.end - 1)
    /\ w_local[1][1].cand.address # w_local[2][1].cand.address

\* C23 as stated: within one outer iteration a read-back of all zeroes is
\* followed by a dispatch whose nonce word is the previous one plus 1, and the
\* word never steps past 0xFFFFFFFF (no wrap to 0, no overflow).
C23_AsStated ==
    [][(engine = "gpu" /\ g_pc = "read" /\ g_pc' \notin {"read", "drain"}) =>
          /\ dev_nonce # U32_MAX
          /\ g_pc' = "enqueue"
          /\ dev_nonce' = WrappingInc(dev_nonce)
          /\ dev_message' = dev_message]_vars

\* C22 as stated: every dispatch uses the same pair of work sizes, the local
\* one being min(largest work-group size of the device, 512) and the global
\* one the smallest multiple of it that is at least WORK_SIZE / 8.
C22_AsStated ==
    \A i \in 1..Len(h_trace) :
        h_trace[i].ev = "dispatch" =>
            LET local == h_trace[i].local
                global == h_trace[i].global
            IN  /\ local = (IF h_env.max_wg_size < 512 THEN h_env.max_wg_size ELSE 512)
                /\ global % local = 0
                /\ global >= WORK_SIZE \div 8
                /\ global - local < WORK_SIZE \div 8
                /\ local = h_dev.local_work_size /\ global = h_dev.global_work_size

\* the index in the name of every byte constant defined so far
SrcIndexes == { m_src[k].index : k \in SrcBytes }

\* C24: whatever salt segment and solution word the host puts in the message,
\* every constant S_k of `src` has the value of byte k (counted from 0) of
\* the 85-byte message of lines 530-536; k is never a salt position 41..52
\* and no k is defined twice; the returned string has a constant for every
\* byte of the factory (1..20), the caller (21..40) and the hash (53..84).
C24_DefinesMatchMessage ==
    /\ \A segment \in HostSegments, d \in NonceStarts, gid \in 0..(GlobalWorkItems - 1) :
          LET solution_message == SolutionMessage(config, segment, KernelWord(gid, d))
          IN  /\ Len(solution_message) = 85
              /\ \A k \in SrcBytes :
                    /\ m_src[k].index \in 1..84
                    /\ m_src[k].value = solution_message[m_src[k].index + 1]
    /\ SrcIndexes \cap (41..52) = {}
    /\ \A j, k \in SrcBytes : m_src[j].index = m_src[k].index => j = k
    /\ SrcComplete => SrcIndexes = (1..40) \cup (53..84)

C24_Witness ==
    /\ SrcComplete
    /\ \E j, k, l \in SrcBytes :
          /\ m_src[j].index = 20 /\ m_src[j].value = config.factory_address[20]
          /\ m_src[k].index = 21 /\ m_src[k].value = config.calling_address[1]
          /\ m_src[l].index = 84 /\ m_src[l].value = config.init_code_hash[32]
          /\ m_src[j].value # m_src[k].value /\ m_src[k].value # m_src[l].value

\* the (leading, total) pairs C25 lists: leading in 0..19 with
\* leading <= total <= 19, and the all-zero pair (21, 20)
ListedMetrics ==
    { [total |-> t, leading |-> l] : l \in 0..19, t \in 0..19 } \cup { [total |-> 20, leading |-> 21] }

\* C25: the scan of either engine ends on one of the listed pairs with
\* leading <= total unless leading is 21, leading is never 20, and no other
\* listed pair, hence no other scan result, gives the key leading * 20 + total
\* of that pair.
C25_KeyInjective ==
    z_i = 20 =>
        \A m \in {z_acc, z_gacc} :
            /\ m \in ListedMetrics
            /\ m.leading # 20
            /\ m.leading <= m.total \/ (m.leading = 21 /\ m.total = 20)
            /\ \A other \in ListedMetrics :
                  (other.leading <= other.total \/ other.leading = 21) =>
                      (RewardKey(other) = RewardKey(m) => other = m)

C25_Witness ==
    /\ z_i = 20 /\ z_k = 20
    /\ z_acc = [total |-> 20, leading |-> 21] /\ z_gacc = z_acc
    /\ RewardKey(z_acc) = 440
    /\ RewardKey([total |-> 19, leading |-> 19]) = 399

=============================================================================
